---- MODULE Spec2Model ----
(***************************************************************************)
(* Model of cli/internal/lockfile/berry_lockfile.go: the Berry (Yarn 2+)   *)
(* lockfile: DecodeBerryLockfile, ResolvePackage, AllDependencies,         *)
(* Subgraph and Encode.                                                    *)
(*                                                                         *)
(* A Go string is a sequence of one-character strings, a Go map is a       *)
(* function, and a *YarnLockfileEntry is an index into the heap of entry   *)
(* records, so that two keys holding the same pointer hold the same index. *)
(***************************************************************************)
EXTENDS Naturals, Sequences, FiniteSets, TLC

\* ------------------------------------------------------------------------
\* Model bounds

\* Longest candidate sequence the key policy hands to ResolvePackage.
MaxCands == 2
\* Longest key list handed to Subgraph.
MaxPackages == 2

\* ------------------------------------------------------------------------
\* Go's strings package

Min(S) == CHOOSE x \in S : \A y \in S : x <= y

Drop(s, n) == SubSeq(s, n + 1, Len(s))

\* strings.HasPrefix
HasPrefix(s, p) == Len(s) >= Len(p) /\ SubSeq(s, 1, Len(p)) = p

\* strings.Index, 1-based; 0 when sep does not occur in s
Index(s, sep) ==
  LET at == {i \in 1..(Len(s) + 1) : i + Len(sep) - 1 <= Len(s)
                                      /\ SubSeq(s, i, i + Len(sep) - 1) = sep}
  IN IF at = {} THEN 0 ELSE Min(at)

\* strings.Split with a non-empty separator
RECURSIVE Split(_, _)
Split(s, sep) ==
  LET i == Index(s, sep)
  IN IF i = 0 THEN <<s>>
     ELSE <<SubSeq(s, 1, i - 1)>> \o Split(Drop(s, i + Len(sep) - 1), sep)

\* strings.ReplaceAll with a non-empty old
RECURSIVE ReplaceAll(_, _, _)
ReplaceAll(s, old, new) ==
  LET i == Index(s, old)
  IN IF i = 0 THEN s
     ELSE SubSeq(s, 1, i - 1) \o new \o ReplaceAll(Drop(s, i + Len(old) - 1), old, new)

WhiteSpace == {" ", "\t", "\n", "\r"}

\* strings.TrimSpace
TrimSpace(s) ==
  LET keep == {i \in 1..Len(s) : s[i] \notin WhiteSpace}
  IN IF keep = {} THEN <<>>
     ELSE SubSeq(s, Min(keep), CHOOSE j \in keep : \A k \in keep : k <= j)

RECURSIVE Concat(_)
Concat(ss) == IF ss = <<>> THEN <<>> ELSE Head(ss) \o Concat(Tail(ss))

Range(f) == {f[x] : x \in DOMAIN f}

\* ------------------------------------------------------------------------
\* Go maps: a map is a function; m[k] = v is Put

EmptyMap == <<>>

Put(m, k, v) == [x \in (DOMAIN m) \cup {k} |-> IF x = k THEN v ELSE m[x]]

\* for name, version := range src { dst[name] = version }
PutAll(dst, src) ==
  [x \in (DOMAIN dst) \cup (DOMAIN src) |-> IF x \in DOMAIN src THEN src[x] ELSE dst[x]]

\* ------------------------------------------------------------------------
\* YarnLockfileEntry, and the nil pointer

YarnLockfileEntry(version, resolved, integrity, deps, optDeps) ==
  [Version |-> version, Resolved |-> resolved, Integrity |-> integrity,
   Dependencies |-> deps, OptionalDependencies |-> optDeps]

ZeroEntry == YarnLockfileEntry(<<>>, <<>>, <<>>, EmptyMap, EmptyMap)

\* ------------------------------------------------------------------------
\* gopkg.in/yaml.v3 as Encode uses it (yaml.NewEncoder, SetIndent(2),
\* Encode of a map[string]*YarnLockfileEntry): block mappings, keys sorted,
\* `omitempty` maps left out when empty, scalars plain where YAML allows it,
\* else single-quoted, else double-quoted.

\* The printable characters in code order, from 32 (space) on; the grave
\* accent (96) is never looked up and only holds its place.
AsciiPrintable == <<" ","!","\"","#","$","%","&","'","(",")","*","+",",","-",".","/","0","1","2","3","4","5","6","7","8","9",":",";","<","=",">","?","@","A","B","C","D","E","F","G","H","I","J","K","L","M","N","O","P","Q","R","S","T","U","V","W","X","Y","Z","[","\\","]","^","_">> \o <<"grave accent">> \o <<"a","b","c","d","e","f","g","h","i","j","k","l","m","n","o","p","q","r","s","t","u","v","w","x","y","z","{","|","}","~">>

PositionIn(table, c) == CHOOSE i \in 1..Len(table) : table[i] = c

CharCode(c) == 31 + PositionIn(AsciiPrintable, c)

IsDigit(c) == c \in {"0", "1", "2", "3", "4", "5", "6", "7", "8", "9"}

IsLetterCode(n) == (n >= 65 /\ n <= 90) \/ (n >= 97 /\ n <= 122)

\* The number written by the digits of s from position i on (0 when none),
\* and the position after them.
RECURSIVE DigitRun(_, _, _)
DigitRun(s, i, acc) ==
  IF i <= Len(s) /\ IsDigit(s[i])
  THEN DigitRun(s, i + 1, acc * 10 + (CharCode(s[i]) - 48))
  ELSE <<acc, i>>

\* keyList.Less at the first differing characters, of codes ca and cb:
\* letters by code, a letter against another character by what precedes
\* (digits), digit runs (an, bn) by value and then by length.
KeyLessAt(ca, cb, digits, an, bn) ==
  IF IsLetterCode(ca) /\ IsLetterCode(cb) THEN ca < cb
  ELSE IF IsLetterCode(ca) \/ IsLetterCode(cb)
  THEN (IF digits THEN IsLetterCode(ca) ELSE IsLetterCode(cb))
  ELSE IF an[1] # bn[1] THEN an[1] < bn[1]
  ELSE IF an[2] # bn[2] THEN an[2] < bn[2]
  ELSE ca < cb

KeyLessFrom(a, b, i) ==
  KeyLessAt(CharCode(a[i]), CharCode(b[i]), i > 1 /\ IsDigit(a[i - 1]),
            DigitRun(a, i, 0), DigitRun(b, i, 0))

\* yaml.v3's keyList.Less on string keys: the first differing character
\* decides, a proper prefix comes first.
KeyLess(a, b) ==
  IF \A i \in 1..Len(a) : i > Len(b) \/ a[i] = b[i]
  THEN Len(a) < Len(b)
  ELSE KeyLessFrom(a, b, Min({i \in 1..Len(a) : i <= Len(b) /\ a[i] # b[i]}))

\* sort.Sort(keys): the keys of a map in the encoder's order
RECURSIVE SortKeys(_)
SortKeys(S) ==
  IF S = {} THEN <<>>
  ELSE LET m == CHOOSE x \in S : \A y \in S \ {x} : KeyLess(x, y)
       IN <<m>> \o SortKeys(S \ {m})

\* A string the resolver would read back as something else than a string
\* (null, an integer): the encoder double-quotes it.
ResolvesNonString(s) == s = <<>> \/ (\A i \in 1..Len(s) : IsDigit(s[i]))

YamlIndicators == {"#", ",", "[", "]", "{", "}", "&", "*", "!", "|", ">", "'", "\"", "%", "@"}

\* yaml_emitter_analyze_scalar's block_plain_allowed, for printable
\* one-line strings
BlockPlainAllowed(s) ==
  /\ s # <<>>
  /\ s[1] \notin YamlIndicators
  /\ s[1] # " " /\ s[Len(s)] # " "
  /\ ~(s[1] \in {"?", ":", "-"} /\ (Len(s) = 1 \/ s[2] = " "))
  /\ \A i \in 2..Len(s) :
        /\ ~(s[i] = ":" /\ (i = Len(s) \/ s[i + 1] = " "))
        /\ ~(s[i] = "#" /\ s[i - 1] = " ")

\* The three scalar styles as the emitter writes them.
yamlSingleQuoted(s) == <<"'">> \o ReplaceAll(s, <<"'">>, <<"'","'">>) \o <<"'">>

yamlDoubleQuoted(s) == <<"\"">> \o ReplaceAll(ReplaceAll(s, <<"\\">>, <<"\\","\\">>), <<"\"">>, <<"\\","\"">>) \o <<"\"">>

yamlScalar(s) ==
  IF ResolvesNonString(s) THEN yamlDoubleQuoted(s)
  ELSE IF BlockPlainAllowed(s) THEN s
  ELSE yamlSingleQuoted(s)

\* A non-empty map[string]string field, one line per name (ks, sorted) at
\* indent 4.
yamlMapEntryLines(m, ks) ==
  [i \in 1..Len(ks) |-> <<" "," "," "," ">> \o yamlScalar(ks[i]) \o <<":"," ">> \o yamlScalar(m[ks[i]])]

yamlMapLines(head, m) ==
  IF DOMAIN m = {} THEN <<>>
  ELSE <<head>> \o yamlMapEntryLines(m, SortKeys(DOMAIN m))

\* One YarnLockfileEntry under its key, fields in struct order.
yamlEntryLines(key, e) ==
  << yamlScalar(key) \o <<":">>,
     <<" "," ","v","e","r","s","i","o","n",":"," ">> \o yamlScalar(e.Version),
     <<" "," ","r","e","s","o","l","v","e","d",":"," ">> \o yamlScalar(e.Resolved),
     <<" "," ","i","n","t","e","g","r","i","t","y",":"," ">> \o yamlScalar(e.Integrity) >>
  \o yamlMapLines(<<" "," ","d","e","p","e","n","d","e","n","c","i","e","s",":">>, e.Dependencies)
  \o yamlMapLines(<<" "," ","o","p","t","i","o","n","a","l","D","e","p","e","n","d","e","n","c","i","e","s",":">>, e.OptionalDependencies)

RECURSIVE yamlLines(_, _, _)
yamlLines(ks, l, heap) ==
  IF ks = <<>> THEN <<>>
  ELSE yamlEntryLines(Head(ks), heap[l[Head(ks)]]) \o yamlLines(Tail(ks), l, heap)

\* Every line with its end-of-line marker.
RECURSIVE JoinLines(_)
JoinLines(ls) == IF ls = <<>> THEN <<>> ELSE Head(ls) \o <<"\n">> \o JoinLines(Tail(ls))

\* yamlEncoder.Encode(l): the bytes left in tmp
yamlMarshal(l, heap) ==
  IF DOMAIN l = {} THEN <<"{","}","\n">>
  ELSE JoinLines(yamlLines(SortKeys(DOMAIN l), l, heap))

\* ------------------------------------------------------------------------
\* gopkg.in/yaml.v3 as DecodeBerryLockfile uses it (yaml.Unmarshal into a
\* map[string]*YarnLockfileEntry), on the documents a lockfile is made of:
\* comment and blank lines, top-level `key:` lines, `field: value` lines at
\* indent 2 and `name: value` lines at indent 4, scalars plain, single- or
\* double-quoted.  Any other line is a syntax error.  Every block of the
\* documents read here has a field line, so no key is left with a nil entry.

NoScalar == [ok |-> FALSE, val |-> <<>>, rest |-> <<>>]

\* s follows the opening single quote; '' stands for one quote.
RECURSIVE yamlScanSingle(_)
yamlScanSingle(s) ==
  LET i == Index(s, <<"'">>)
  IN IF i = 0 THEN NoScalar
     ELSE IF i < Len(s) /\ s[i + 1] = "'"
     THEN LET r == yamlScanSingle(Drop(s, i + 1))
          IN IF r.ok THEN [r EXCEPT !.val = SubSeq(s, 1, i - 1) \o <<"'">> \o r.val]
             ELSE NoScalar
     ELSE [ok |-> TRUE, val |-> SubSeq(s, 1, i - 1), rest |-> Drop(s, i)]

\* s follows the opening double quote (no escape sequences are read).
yamlScanDouble(s) ==
  LET i == Index(s, <<"\"">>)
  IN IF i = 0 \/ Index(s, <<"\\">>) # 0 THEN NoScalar
     ELSE [ok |-> TRUE, val |-> SubSeq(s, 1, i - 1), rest |-> Drop(s, i)]

\* A plain scalar ends before a ':' that a space or the end of line follows.
yamlScanPlain(s) ==
  LET ends == {i \in 1..Len(s) : s[i] = ":" /\ (i = Len(s) \/ s[i + 1] = " ")}
  IN IF s[1] \in YamlIndicators THEN NoScalar
     ELSE IF ends = {} THEN [ok |-> TRUE, val |-> TrimSpace(s), rest |-> <<>>]
     ELSE [ok |-> TRUE, val |-> TrimSpace(SubSeq(s, 1, Min(ends) - 1)),
           rest |-> Drop(s, Min(ends) - 1)]

\* The scalar s starts with (s is not empty).
yamlScanScalar(s) ==
  IF s[1] = "'" THEN yamlScanSingle(Tail(s))
  ELSE IF s[1] = "\"" THEN yamlScanDouble(Tail(s))
  ELSE yamlScanPlain(s)

LeadingSpaces(s) ==
  LET other == {i \in 1..Len(s) : s[i] # " "}
  IN IF other = {} THEN Len(s) ELSE Min(other) - 1

BadLine == [kind |-> "error", indent |-> 0, key |-> <<>>, val |-> <<>>]

BlankLine == [kind |-> "blank", indent |-> 0, key |-> <<>>, val |-> <<>>]

\* `key: value`: v is the scalar scanned after the colon.
yamlPairLine(indent, key, v) ==
  IF ~v.ok \/ TrimSpace(v.rest) # <<>> THEN BadLine
  ELSE [kind |-> "pair", indent |-> indent, key |-> key, val |-> v.val]

\* after is what follows the colon of the key.
yamlAfterColon(indent, key, after) ==
  IF TrimSpace(after) = <<>>
  THEN [kind |-> "key", indent |-> indent, key |-> key, val |-> <<>>]
  ELSE IF after[1] # " " THEN BadLine
  ELSE yamlPairLine(indent, key, yamlScanScalar(TrimSpace(after)))

\* k is the scalar the line starts with: a colon has to follow it.
yamlAfterKey(indent, k) ==
  IF ~k.ok \/ k.rest = <<>> \/ k.rest[1] # ":" THEN BadLine
  ELSE yamlAfterColon(indent, k.val, Tail(k.rest))

yamlLineBody(indent, body) ==
  IF TrimSpace(body) = <<>> \/ body[1] = "#" THEN BlankLine
  ELSE yamlAfterKey(indent, yamlScanScalar(body))

\* One line: blank (or comment), `key:` (kind "key"), `key: value` (kind
\* "pair"), or a syntax error.
yamlParseLine(line) == yamlLineBody(LeadingSpaces(line), Drop(line, LeadingSpaces(line)))

\* The decoder's state while it walks the lines: the map built so far (raw
\* key -> index of its entry in heap), the entry being filled (cur, 0 when
\* none) and the map field being filled (sub).
ParseStart == [err |-> FALSE, raw |-> EmptyMap, heap |-> <<>>, cur |-> 0, sub |-> "none"]

ParseFail(st) == [st EXCEPT !.err = TRUE]

\* p is the line parsed.
yamlParseStepOn(st, p) ==
     IF st.err \/ p.kind = "blank" THEN st
     ELSE IF p.kind = "error" THEN ParseFail(st)
     ELSE IF p.indent = 0
     THEN \* a new top-level block; a repeated mapping key is an error, and
          \* so is a scalar where an entry is expected
          IF p.kind = "pair" \/ p.key \in DOMAIN st.raw THEN ParseFail(st)
          ELSE [st EXCEPT !.raw = Put(st.raw, p.key, Len(st.heap) + 1),
                          !.heap = Append(st.heap, ZeroEntry),
                          !.cur = Len(st.heap) + 1,
                          !.sub = "none"]
     ELSE IF p.indent = 2 /\ st.cur # 0
     THEN IF p.kind = "pair"
          THEN IF p.key = <<"v","e","r","s","i","o","n">>
               THEN [st EXCEPT !.heap[st.cur].Version = p.val, !.sub = "none"]
               ELSE IF p.key = <<"r","e","s","o","l","v","e","d">>
               THEN [st EXCEPT !.heap[st.cur].Resolved = p.val, !.sub = "none"]
               ELSE IF p.key = <<"i","n","t","e","g","r","i","t","y">>
               THEN [st EXCEPT !.heap[st.cur].Integrity = p.val, !.sub = "none"]
               ELSE IF p.key \in {<<"d","e","p","e","n","d","e","n","c","i","e","s">>, <<"o","p","t","i","o","n","a","l","D","e","p","e","n","d","e","n","c","i","e","s">>}
               THEN ParseFail(st)
               ELSE [st EXCEPT !.sub = "none"]   \* a field the struct lacks
          ELSE IF p.key = <<"d","e","p","e","n","d","e","n","c","i","e","s">> THEN [st EXCEPT !.sub = "Dependencies"]
          ELSE IF p.key = <<"o","p","t","i","o","n","a","l","D","e","p","e","n","d","e","n","c","i","e","s">> THEN [st EXCEPT !.sub = "OptionalDependencies"]
          ELSE [st EXCEPT !.sub = "ignored"]
     ELSE IF p.indent = 4 /\ st.sub # "none" /\ p.kind = "pair"
     THEN IF st.sub = "ignored" THEN st
          ELSE IF p.key \in DOMAIN st.heap[st.cur][st.sub] THEN ParseFail(st)
          ELSE [st EXCEPT !.heap[st.cur][st.sub] = Put(@, p.key, p.val)]
     ELSE ParseFail(st)

yamlParseStep(st, line) == yamlParseStepOn(st, yamlParseLine(line))

RECURSIVE yamlParseLines(_, _)
yamlParseLines(st, lines) ==
  IF lines = <<>> THEN st
  ELSE yamlParseLines(yamlParseStep(st, Head(lines)), Tail(lines))

\* yaml.Unmarshal(contents, &lockfile): err, or the raw map and its entries
yamlUnmarshal(contents) == yamlParseLines(ParseStart, Split(contents, <<"\n">>))

\* ------------------------------------------------------------------------
\* berry_lockfile.go
\*
\* A BerryLockfile is a function from key to entry pointer (an index into
\* heap).

\* The keys the callers ask about.
CandKeys == {<<"a">>, <<"b">>, <<"@","c">>}

SeqsUpTo(S, n) == UNION {[1..k -> S] : k \in 0..n}

\* yarnPossibleKeys(name, version) is the key policy, defined outside this
\* file: all that is known of it is that it returns a sequence of keys.
CandidateSeqs == SeqsUpTo(CandKeys, MaxCands)

\* The key lists the graph walk hands to Subgraph.
PackageSeqs == SeqsUpTo(CandKeys, MaxPackages)

\* ResolvePackage with the loop keeping the last hit, not returning the first.
RECURSIVE ResolvePackageLastHit(_, _, _)
ResolvePackageLastHit(l, heap, keys) ==
  IF keys = <<>> THEN [key |-> <<>>, version |-> <<>>, found |-> FALSE]
  ELSE IF ResolvePackageLastHit(l, heap, Tail(keys)).found
  THEN ResolvePackageLastHit(l, heap, Tail(keys))
  ELSE IF Head(keys) \in DOMAIN l
  THEN [key |-> Head(keys), version |-> heap[l[Head(keys)]].Version, found |-> TRUE]
  ELSE [key |-> <<>>, version |-> <<>>, found |-> FALSE]

\* ResolvePackage: keys is what yarnPossibleKeys(name, version) returned.
RECURSIVE ResolvePackage(_, _, _)
ResolvePackage(l, heap, keys) ==
  IF keys = <<>> THEN [key |-> <<>>, version |-> <<>>, found |-> FALSE]
  ELSE IF Head(keys) \in DOMAIN l
  THEN [key |-> Head(keys), version |-> heap[l[Head(keys)]].Version, found |-> TRUE]
  ELSE ResolvePackage(l, heap, Tail(keys))

\* AllDependencies with its two loops in the other order.
AllDependenciesOptionalFirst(l, heap, key) ==
  IF key \notin DOMAIN l THEN [deps |-> EmptyMap, found |-> FALSE]
  ELSE LET entry == heap[l[key]]
       IN [deps |-> PutAll(PutAll(EmptyMap, entry.OptionalDependencies), entry.Dependencies),
           found |-> TRUE]

AllDependencies(l, heap, key) ==
  IF key \notin DOMAIN l THEN [deps |-> EmptyMap, found |-> FALSE]
  ELSE LET entry == heap[l[key]]
       IN [deps |-> PutAll(PutAll(EmptyMap, entry.Dependencies), entry.OptionalDependencies),
           found |-> TRUE]

\* The loop of Subgraph without its `if ok`: a missing key gets the nil
\* pointer (0).
RECURSIVE SubgraphLoopNoCheck(_, _, _)
SubgraphLoopNoCheck(l, lockfile, packages) ==
  IF packages = <<>> THEN lockfile
  ELSE LET key == Head(packages)
       IN SubgraphLoopNoCheck(l, Put(lockfile, key, IF key \in DOMAIN l THEN l[key] ELSE 0),
                              Tail(packages))

\* The loop of Subgraph: lockfile is the map being filled.
RECURSIVE SubgraphLoop(_, _, _)
SubgraphLoop(l, lockfile, packages) ==
  IF packages = <<>> THEN lockfile
  ELSE LET key == Head(packages)
       IN SubgraphLoop(l, IF key \in DOMAIN l THEN Put(lockfile, key, l[key]) ELSE lockfile,
                       Tail(packages))

Subgraph(l, packages) == [lockfile |-> SubgraphLoop(l, EmptyMap, packages), err |-> <<>>]

\* The header Encode writes first.
EncodeHeader == <<"#"," ","T","h","i","s"," ","f","i","l","e"," ","i","s"," ","g","e","n","e","r","a","t","e","d"," ","b","y"," ","r","u","n","n","i","n","g"," ","\"","y","a","r","n"," ","i","n","s","t","a","l","l","\""," ","i","n","s","i","d","e"," ","y","o","u","r"," ","p","r","o","j","e","c","t",".","\n","#"," ","M","a","n","u","a","l"," ","c","h","a","n","g","e","s"," ","m","i","g","h","t"," ","b","e"," ","l","o","s","t"," ","-"," ","p","r","o","c","e","e","d"," ","w","i","t","h"," ","c","a","u","t","i","o","n","!","\n","\n","_","_","m","e","t","a","d","a","t","a",":","\n"," "," ","v","e","r","s","i","o","n",":"," ","5","\n"," "," ","c","a","c","h","e","K","e","y",":"," ","8","\n","\n">>

\* scan.Scan() and scan.Text() with bufio.ScanLines: the next line, without
\* its end-of-line marker, and the bytes left.
ScanLine(tmp) ==
  LET i == Index(tmp, <<"\n">>)
      text == IF i = 0 THEN tmp ELSE SubSeq(tmp, 1, i - 1)
  IN [line |-> IF text # <<>> /\ text[Len(text)] = "\r"
               THEN SubSeq(text, 1, Len(text) - 1) ELSE text,
      rest |-> IF i = 0 THEN <<>> ELSE Drop(tmp, i)]

\* The loop body with the quotes of indented lines left as they are.
StringToWriteTopLevelOnly(line) ==
  IF ~HasPrefix(line, <<" ">>)
  THEN <<"\n">> \o ReplaceAll(line, <<"'">>, <<"\"">>) \o <<"\n">>
  ELSE line \o <<"\n">>

\* The body of Encode's loop: what is written for one line.
StringToWrite(line) ==
  IF ~HasPrefix(line, <<" ">>)
  THEN <<"\n">> \o ReplaceAll(line, <<"'">>, <<"\"">>) \o <<"\n">>
  ELSE ReplaceAll(line, <<"'">>, <<"\"">>) \o <<"\n">>

\* Error messages, word by word.  YamlError stands for the library's own
\* message (a line number and what the scanner expected).
YamlError == <<"yaml:", "did", "not", "find", "expected", "token">>

SinkError == <<"write", "failed">>

DecodeErrorMessage(cause) == <<"could", "not", "unmarshal", "lockfile:">> \o cause

WriteErrorMessage(cause) == <<"failed", "to", "write", "to", "buffer:">> \o cause

\* The orders a `range` over a map with these keys may take.
Orders(S) == {o \in [1..Cardinality(S) -> S] : \A i, j \in DOMAIN o : o[i] = o[j] => i = j}

\* The inner loop without strings.TrimSpace.
RECURSIVE SplitOutPiecesUntrimmed(_, _, _)
SplitOutPiecesUntrimmed(prettyLockfile, pieces, val) ==
  IF pieces = <<>> THEN prettyLockfile
  ELSE SplitOutPiecesUntrimmed(Put(prettyLockfile, Head(pieces), val), Tail(pieces), val)

\* The inner loop of yarnSplitOutEntries: one entry per piece of key.
RECURSIVE SplitOutPieces(_, _, _)
SplitOutPieces(prettyLockfile, pieces, val) ==
  IF pieces = <<>> THEN prettyLockfile
  ELSE SplitOutPieces(Put(prettyLockfile, TrimSpace(Head(pieces)), val), Tail(pieces), val)

\* yarnSplitOutEntries, ranging over the raw map in the given order.
RECURSIVE SplitOutLoop(_, _, _)
SplitOutLoop(prettyLockfile, lockfile, order) ==
  IF order = <<>> THEN prettyLockfile
  ELSE SplitOutLoop(SplitOutPieces(prettyLockfile, Split(Head(order), <<","," ">>), lockfile[Head(order)]),
                    lockfile, Tail(order))

yarnSplitOutEntries(lockfile, order) == SplitOutLoop(EmptyMap, lockfile, order)

\* DecodeBerryLockfile(contents): the lockfile and its error (<<>> is nil);
\* u is what yaml.Unmarshal made of contents.
DecodeBerryLockfile(u, order) ==
  IF u.err
  THEN [lockfile |-> EmptyMap, heap |-> <<>>, raw |-> EmptyMap,
        err |-> DecodeErrorMessage(YamlError)]
  ELSE [lockfile |-> yarnSplitOutEntries(u.raw, order), heap |-> u.heap, raw |-> u.raw,
        err |-> <<>>]

\* ------------------------------------------------------------------------
\* The lockfiles handed to DecodeBerryLockfile

\* One block under two aliases (with a space to trim), a dependency named in
\* both maps.
InAlias == <<"\"","a",","," "," ","b","\"",":","\n"," "," ","v","e","r","s","i","o","n",":"," ","v","\n"," "," ","r","e","s","o","l","v","e","d",":"," ","r","\n"," "," ","i","n","t","e","g","r","i","t","y",":"," ","i","\n"," "," ","d","e","p","e","n","d","e","n","c","i","e","s",":","\n"," "," "," "," ","x",":"," ","p","\n"," "," ","o","p","t","i","o","n","a","l","D","e","p","e","n","d","e","n","c","i","e","s",":","\n"," "," "," "," ","x",":"," ","q","\n"," "," "," "," ","y",":"," ","p","\n">>

\* Two blocks that share the alias a.
InShared == <<"a",":","\n"," "," ","v","e","r","s","i","o","n",":"," ","v","\n","\"","a",","," ","b","\"",":","\n"," "," ","v","e","r","s","i","o","n",":"," ","w","\n">>

\* Keys and values the encoder has to quote.
InQuoted == <<"\"","@","c","\"",":","\n"," "," ","v","e","r","s","i","o","n",":"," ","v","\n"," "," ","d","e","p","e","n","d","e","n","c","i","e","s",":","\n"," "," "," "," ","\"","@","c","\"",":"," ","w","\n">>

\* A lockfile as Yarn writes it, with its header.
InYarn == <<"#"," ","h","a","n","d"," ","e","d","i","t","s"," ","a","r","e"," ","l","o","s","t","\n","\n","_","_","m","e","t","a","d","a","t","a",":","\n"," "," ","v","e","r","s","i","o","n",":"," ","5","\n"," "," ","c","a","c","h","e","K","e","y",":"," ","8","\n","\n","b",":","\n"," "," ","v","e","r","s","i","o","n",":"," ","v","\n"," "," ","r","e","s","o","l","v","e","d",":"," ","r","\n">>

\* An unresolved merge conflict.
InConflict == <<"a",":","\n"," "," ","v","e","r","s","i","o","n",":"," ","v","\n","<","<","<","<","<","<","<"," ","H","E","A","D","\n","b",":","\n"," "," ","v","e","r","s","i","o","n",":"," ","w","\n">>

\* A file cut off inside a quoted scalar.
InTruncated == <<"\"","a",","," ","b","\"",":","\n"," "," ","v","e","r","s","i","o","n",":"," ","\"","v">>

Inputs == {InAlias, InShared, InQuoted, InYarn, InConflict, InTruncated}

\* ------------------------------------------------------------------------
\* The program: one DecodeBerryLockfile, then callers using the decoded
\* lockfile, on one thread (Spec) or on both (SpecConcurrent).

Threads == {"t1", "t2"}

VARIABLES
  contents,   \* the bytes handed to DecodeBerryLockfile
  phase,      \* "start", "decoded" or "failed"
  decodeErr,  \* the error DecodeBerryLockfile returned (<<>> is nil)
  raw,        \* the map yaml.Unmarshal filled (the local `lockfile`)
  heap,       \* the YarnLockfileEntry objects, by pointer
  lockfile,   \* the BerryLockfile all threads share
  th          \* each thread's call in progress

vars == <<contents, phase, decodeErr, raw, heap, lockfile, th>>

\* A thread between calls.  op is the method called, pc the place in it, arg
\* its argument, ret what it returned; tmp, w, attempts and err belong to
\* Encode: the bytes not yet scanned, the chunks the sink took, the writes
\* issued, and the error returned (<<>> is nil).
Idle == [op |-> "idle", pc |-> "idle", arg |-> <<>>, ret |-> <<>>,
         tmp |-> <<>>, w |-> <<>>, attempts |-> 0, err |-> <<>>]

Init ==
  /\ contents \in Inputs
  /\ phase = "start"
  /\ decodeErr = <<>>
  /\ raw = EmptyMap
  /\ heap = <<>>
  /\ lockfile = EmptyMap
  /\ th = [t \in Threads |-> Idle]

\* What DecodeBerryLockfile may return for these bytes, one result per
\* order the range over the raw map may take.
DecodeResultsOf(u) == {DecodeBerryLockfile(u, order) : order \in Orders(DOMAIN u.raw)}

DecodeResults(bytes) == DecodeResultsOf(yamlUnmarshal(bytes))

Decode ==
  /\ phase = "start"
  /\ \E d \in DecodeResults(contents) :
       /\ phase' = IF d.err = <<>> THEN "decoded" ELSE "failed"
       /\ decodeErr' = d.err
       /\ raw' = d.raw
       /\ heap' = d.heap
       /\ lockfile' = d.lockfile
  /\ UNCHANGED <<contents, th>>

CallResolvePackage(t) ==
  /\ phase = "decoded" /\ th[t].op = "idle"
  /\ \E keys \in CandidateSeqs :
       th' = [th EXCEPT ![t] = [Idle EXCEPT !.op = "ResolvePackage", !.pc = "ret", !.arg = keys,
                                            !.ret = ResolvePackage(lockfile, heap, keys)]]
  /\ UNCHANGED <<contents, phase, decodeErr, raw, heap, lockfile>>

\* AllDependencies starting from the entry's own Dependencies map rather
\* than a fresh one: the optional dependencies are written into the entry.
CallAllDependenciesInPlace(t) ==
  /\ phase = "decoded" /\ th[t].op = "idle"
  /\ \E key \in CandKeys :
       /\ th' = [th EXCEPT ![t] = [Idle EXCEPT !.op = "AllDependencies", !.pc = "ret", !.arg = key,
                                               !.ret = AllDependencies(lockfile, heap, key)]]
       /\ heap' = IF key \in DOMAIN lockfile
                  THEN [heap EXCEPT ![lockfile[key]].Dependencies =
                                       AllDependencies(lockfile, heap, key).deps]
                  ELSE heap
  /\ UNCHANGED <<contents, phase, decodeErr, raw, lockfile>>

CallAllDependencies(t) ==
  /\ phase = "decoded" /\ th[t].op = "idle"
  /\ \E key \in CandKeys :
       th' = [th EXCEPT ![t] = [Idle EXCEPT !.op = "AllDependencies", !.pc = "ret", !.arg = key,
                                            !.ret = AllDependencies(lockfile, heap, key)]]
  /\ UNCHANGED <<contents, phase, decodeErr, raw, heap, lockfile>>

CallSubgraph(t) ==
  /\ phase = "decoded" /\ th[t].op = "idle"
  /\ \E packages \in PackageSeqs :
       th' = [th EXCEPT ![t] = [Idle EXCEPT !.op = "Subgraph", !.pc = "ret", !.arg = packages,
                                            !.ret = Subgraph(lockfile, packages)]]
  /\ UNCHANGED <<contents, phase, decodeErr, raw, heap, lockfile>>

\* Encode up to its first write: the lockfile is serialized into tmp.
EncodeMarshal(t) ==
  /\ phase = "decoded" /\ th[t].op = "idle"
  /\ th' = [th EXCEPT ![t] = [Idle EXCEPT !.op = "Encode", !.pc = "header",
                                          !.tmp = yamlMarshal(lockfile, heap)]]
  /\ UNCHANGED <<contents, phase, decodeErr, raw, heap, lockfile>>

\* A write whose error is recorded while the loop goes on.
WriteStringGoesOn(c, s, ok, next) ==
  IF ok
  THEN [c EXCEPT !.w = Append(c.w, s), !.attempts = c.attempts + 1, !.pc = next]
  ELSE [c EXCEPT !.attempts = c.attempts + 1, !.pc = next,
                 !.err = WriteErrorMessage(SinkError)]

\* io.WriteString(w, s) on the caller's sink, which takes the chunk or fails;
\* on failure Encode returns the wrapped error.
WriteString(c, s, ok, next) ==
  IF ok
  THEN [c EXCEPT !.w = Append(c.w, s), !.attempts = c.attempts + 1, !.pc = next]
  ELSE [c EXCEPT !.attempts = c.attempts + 1, !.pc = "ret",
                 !.err = WriteErrorMessage(SinkError)]

EncodeWriteHeader(t) ==
  /\ th[t].op = "Encode" /\ th[t].pc = "header"
  /\ \E ok \in BOOLEAN :
       th' = [th EXCEPT ![t] = WriteString(th[t], EncodeHeader, ok, "scan")]
  /\ UNCHANGED <<contents, phase, decodeErr, raw, heap, lockfile>>

\* One turn of the scan loop; when no line is left Encode returns nil.
EncodeScan(t) ==
  /\ th[t].op = "Encode" /\ th[t].pc = "scan"
  /\ IF th[t].tmp = <<>>
     THEN th' = [th EXCEPT ![t].pc = "ret"]
     ELSE \E ok \in BOOLEAN :
            th' = [th EXCEPT ![t] = WriteString([th[t] EXCEPT !.tmp = ScanLine(th[t].tmp).rest],
                                                StringToWrite(ScanLine(th[t].tmp).line), ok, "scan")]
  /\ UNCHANGED <<contents, phase, decodeErr, raw, heap, lockfile>>

\* The caller of a successful Encode reads its output back with
\* DecodeBerryLockfile; ret holds the lockfile read, entries by value.
DecodeEncoded(t) ==
  /\ th[t].op = "Encode" /\ th[t].pc = "ret" /\ th[t].err = <<>> /\ th[t].ret = <<>>
  /\ \E d \in DecodeResults(Concat(th[t].w)) :
       th' = [th EXCEPT ![t].ret =
                [err |-> d.err,
                 lockfile |-> [k \in DOMAIN d.lockfile |-> d.heap[d.lockfile[k]]]]]
  /\ UNCHANGED <<contents, phase, decodeErr, raw, heap, lockfile>>

\* The call is over; the thread is free for the next one.
Return(t) ==
  /\ th[t].pc = "ret"
  /\ th' = [th EXCEPT ![t] = Idle]
  /\ UNCHANGED <<contents, phase, decodeErr, raw, heap, lockfile>>

\* One step of a caller.
Step(t) ==
  \/ CallResolvePackage(t)
  \/ CallAllDependencies(t)
  \/ CallSubgraph(t)
  \/ EncodeMarshal(t)
  \/ EncodeWriteHeader(t)
  \/ EncodeScan(t)
  \/ DecodeEncoded(t)
  \/ Return(t)

\* A single caller, one call after the other.
Next == Decode \/ Step("t1")

Spec == Init /\ [][Next]_vars

\* Callers on every thread, their calls interleaved.
NextConcurrent == Decode \/ \E t \in Threads : Step(t)

SpecConcurrent == Init /\ [][NextConcurrent]_vars

\* ------------------------------------------------------------------------
\* Properties

\* The lines bufio.ScanLines cuts tmp into, in order.
RECURSIVE ScanAll(_)
ScanAll(tmp) == IF tmp = <<>> THEN <<>> ELSE <<ScanLine(tmp).line>> \o ScanAll(ScanLine(tmp).rest)

\* The lines the serializer produced for the shared lockfile.
SerializedLines == ScanAll(yamlMarshal(lockfile, heap))

\* The complete output of an Encode that returned nil.
Completed(c) == c.op = "Encode" /\ c.pc = "ret" /\ c.err = <<>>

OutputLines(c) == Split(Concat(c.w), <<"\n">>)

\* The header's lines, the blank one that ends it included.
HeaderLineCount == Len(Split(EncodeHeader, <<"\n">>)) - 1

\* The pieces of a raw key: split on the delimiter, trimmed.
PiecesOf(rawKey) == {TrimSpace(p) : p \in Range(Split(rawKey, <<","," ">>))}

\* C1 (as claimed): decoding the bytes Encode wrote succeeds and yields a
\* map with exactly the encoded lockfile's keys, each entry with the same
\* field values.
C1_RoundTrip ==
  \A t \in Threads :
    (Completed(th[t]) /\ th[t].ret # <<>>) =>
       /\ th[t].ret.err = <<>>
       /\ DOMAIN th[t].ret.lockfile = DOMAIN lockfile
       /\ \A k \in DOMAIN lockfile : th[t].ret.lockfile[k] = heap[lockfile[k]]

\* C2 (as claimed): the canonical keys are exactly the trimmed pieces of the
\* raw keys, and every piece of a raw key maps to that raw key's entry.
C2_AllPiecesKeepTheirEntry ==
  phase = "decoded" =>
     /\ DOMAIN lockfile = UNION {PiecesOf(rk) : rk \in DOMAIN raw}
     /\ \A rk \in DOMAIN raw : \A p \in PiecesOf(rk) : lockfile[p] = raw[rk]

\* C2 (amended): the canonical keys are exactly the trimmed pieces of the
\* raw keys (none holds the delimiter or outer whitespace); every canonical
\* key maps to the very entry of a raw key it is a piece of; and all pieces
\* of a raw key map to that raw key's entry unless another raw key yields
\* the same piece.
C2_AliasSplitting ==
  phase = "decoded" =>
     /\ DOMAIN lockfile = UNION {PiecesOf(rk) : rk \in DOMAIN raw}
     /\ \A k \in DOMAIN lockfile :
          /\ Index(k, <<","," ">>) = 0
          /\ k = <<>> \/ (k[1] \notin WhiteSpace /\ k[Len(k)] \notin WhiteSpace)
          /\ \E rk \in DOMAIN raw : k \in PiecesOf(rk) /\ lockfile[k] = raw[rk]
     /\ \A rk \in DOMAIN raw :
          (\A other \in DOMAIN raw \ {rk} : PiecesOf(other) \cap PiecesOf(rk) = {})
             => \A p \in PiecesOf(rk) : lockfile[p] = raw[rk]

\* A raw key with two aliases and a space to trim was split: both aliases
\* are canonical keys of the one entry.
C2_Witness ==
  /\ phase = "decoded"
  /\ <<"a",","," "," ","b">> \in DOMAIN raw
  /\ {<<"a">>, <<"b">>} \subseteq DOMAIN lockfile
  /\ lockfile[<<"a">>] = raw[<<"a",","," "," ","b">>] /\ lockfile[<<"b">>] = raw[<<"a",","," "," ","b">>]

C4_SubgraphFiltering ==
  \A t \in Threads :
    th[t].op = "Subgraph" =>
       /\ th[t].ret.err = <<>>
       /\ DOMAIN th[t].ret.lockfile = Range(th[t].arg) \cap DOMAIN lockfile
       /\ \A k \in DOMAIN th[t].ret.lockfile : th[t].ret.lockfile[k] = lockfile[k]

\* Subgraph was given a key the source has and one it lacks, and kept the
\* first alone.
C4_Witness ==
  \E t \in Threads :
    /\ th[t].op = "Subgraph" /\ Len(th[t].arg) = 2
    /\ th[t].arg[1] \in DOMAIN lockfile /\ th[t].arg[2] \notin DOMAIN lockfile
    /\ DOMAIN th[t].ret.lockfile = {th[t].arg[1]}

C6_OneBlankLineBeforeBlock ==
  \A t \in Threads :
    Completed(th[t]) =>
       \A i \in (HeaderLineCount + 1)..Len(OutputLines(th[t])) :
          (OutputLines(th[t])[i] # <<>> /\ OutputLines(th[t])[i][1] # " ") =>
             /\ OutputLines(th[t])[i - 1] = <<>>
             /\ OutputLines(th[t])[i - 2] # <<>>

\* The message names corruption or merge conflicts.
MentionsCorruption(msg) ==
  \E i \in 1..Len(msg) :
     msg[i] \in {"corrupted", "corrupted.", "corrupt", "corruption", "merge", "conflict", "conflicts"}

\* C7 (as claimed): the error DecodeBerryLockfile returns on bytes that do
\* not parse names corruption or merge conflicts as a likely cause.
C7_DecodeErrorNamesCorruption == decodeErr # <<>> => MentionsCorruption(decodeErr)

\* C8: the sink holds the chunks Encode produces (the header, then one per
\* serialized line), in order and up to the first write it rejected; after
\* a rejected write Encode has returned the error and written nothing more;
\* it returns nil only with every chunk written.
C8_WriteFailure ==
  \A t \in Threads :
    th[t].op = "Encode" =>
       LET chunks == <<EncodeHeader>> \o [i \in 1..Len(SerializedLines) |->
                                           StringToWrite(SerializedLines[i])]
       IN /\ Len(th[t].w) <= Len(chunks)
          /\ th[t].w = SubSeq(chunks, 1, Len(th[t].w))
          /\ th[t].err # <<>> => (th[t].pc = "ret" /\ th[t].attempts = Len(th[t].w) + 1)
          /\ th[t].err = <<>> => th[t].attempts = Len(th[t].w)
          /\ Completed(th[t]) => th[t].w = chunks

\* The sink rejected a write after it took the header and a line: Encode
\* returned with those two chunks in the sink.
C8_Witness ==
  \E t \in Threads :
    /\ th[t].op = "Encode" /\ th[t].err # <<>>
    /\ th[t].attempts = 3 /\ Len(th[t].w) = 2 /\ th[t].tmp # <<>>

\* C9: the complete output holds no single quote, and each serialized line
\* is written with its characters in order, a double quote in the place of
\* each single quote, after a line break when the line is not indented and
\* before one in any case.
C9_QuoteNormalization ==
  \A t \in Threads :
    Completed(th[t]) =>
       /\ \A i \in 1..Len(Concat(th[t].w)) : Concat(th[t].w)[i] # "'"
       /\ Len(th[t].w) = Len(SerializedLines) + 1
       /\ \A i \in 1..Len(SerializedLines) :
            LET line == SerializedLines[i]
                lead == IF line # <<>> /\ line[1] = " " THEN 0 ELSE 1
                chunk == th[t].w[i + 1]
            IN /\ Len(chunk) = Len(line) + lead + 1
               /\ lead = 1 => chunk[1] = "\n"
               /\ chunk[Len(chunk)] = "\n"
               /\ \A j \in 1..Len(line) :
                    chunk[j + lead] = IF line[j] = "'" THEN "\"" ELSE line[j]

\* An Encode ran to its end on lines with single quotes in them, a key line
\* and an indented line.
C9_Witness ==
  \E t \in Threads :
    /\ Completed(th[t])
    /\ \E i, j \in 1..Len(SerializedLines) :
         /\ SerializedLines[i][1] = "'"
         /\ SerializedLines[j][1] = " " /\ Index(SerializedLines[j], <<"'">>) # 0

\* What a call, finished or under way, holds when it runs alone on the
\* lockfile l with entries heap.
AsAlone(c, l, h) ==
  /\ c.op = "ResolvePackage" => c.ret = ResolvePackage(l, h, c.arg)
  /\ c.op = "AllDependencies" => c.ret = AllDependencies(l, h, c.arg)
  /\ c.op = "Subgraph" => c.ret = Subgraph(l, c.arg)
  /\ c.op = "Encode" =>
       LET lines == ScanAll(yamlMarshal(l, h))
           taken == IF c.err = <<>> THEN c.attempts ELSE c.attempts - 1
       IN /\ Len(c.w) = taken
          /\ c.w = SubSeq(<<EncodeHeader>> \o [i \in 1..Len(lines) |-> StringToWrite(lines[i])],
                          1, taken)
          /\ Completed(c) => taken = Len(lines) + 1

\* C10: whatever the threads do, no step changes the shared lockfile or an
\* entry once DecodeBerryLockfile has returned them, and every call holds
\* what it holds when run alone on them.
C10_ReadOnlyUnderInterleaving ==
  /\ [](phase = "decoded" => \A t \in Threads : AsAlone(th[t], lockfile, heap))
  /\ [][phase = "decoded" => (lockfile' = lockfile /\ heap' = heap)]_vars

\* Two calls overlap: one thread is inside Encode's loop while the other
\* has merged the dependencies of an entry.
C10_Witness ==
  /\ th["t1"].op = "Encode" /\ th["t1"].pc = "scan" /\ Len(th["t1"].w) >= 2
  /\ th["t2"].op = "AllDependencies" /\ th["t2"].ret.found
  /\ DOMAIN th["t2"].ret.deps # {}

====
